---------------------------- MODULE Spec2Model ----------------------------
(***************************************************************************)
(* Device Runner CLI: the JTAG UART handler (PS variant jtag_uart_handler.c*)
(* and PL variant jtag_uart_handler_pl.c).                                 *)
(*                                                                         *)
(* Text is modelled as a sequence of one-character strings, so that the    *)
(* C string functions (strncpy, strcspn, strchr, strcmp, sscanf) are       *)
(* computed character by character.  A uint32_t is a tuple of eight        *)
(* nibbles, most significant first, so that it keeps its 32-bit width.     *)
(* Responses handed to send_response are strings.                          *)
(*                                                                         *)
(* Five specifications share the variables: Spec (main's loop over the     *)
(* menu or over command lines), FrameSpec (the loop over receive_command,  *)
(* which reads bytes with getchar as their chunks arrive), BufferSpec (the *)
(* ingestion buffer between the producer and the consumer), KeySpec        *)
(* (main's loop reading its menu choices with get_char_input) and PairSpec *)
(* (the same command lines served by the PS build, then by the PL build).  *)
(***************************************************************************)
EXTENDS Integers, Sequences, FiniteSets, TLC

VARIABLES
    variant,     \* "PS" (jtag_uart_handler.c) or "PL" (jtag_uart_handler_pl.c)
    entry,       \* how the loop body reaches the handlers: "menu", "command",
                 \* "receive", "buffer", "keys" or "pair"
    pc,          \* position of the single consumer thread
    running,     \* static volatile int running
    param1,      \* static uint32_t param1
    param2,      \* static uint32_t param2
    param3,      \* static uint32_t param3
    app_status,  \* static char app_status[64]
    args,        \* handle_command's args pointer: <<>> is NULL, <<s>> points at s
    cur,         \* history: the call being served, [via, line]
    pre,         \* history: the globals when that call began
    out,         \* history: the responses sent since that call began
    first,       \* history: the first response of the run, <<>> before it
    nready,      \* history: how many times READY was sent
    wire,        \* transport: the chunks that have not arrived yet
    sent,        \* history: the bytes the host sends in this run
    stdin,       \* the bytes getchar can read now
    rpc,         \* position of the loop body around receive_command
    rc_c,        \* receive_command's int c: a character, or EOF
    rc_len,      \* receive_command's int len
    rc_command,  \* receive_command's command buffer, as a C string
    dispatched,  \* history: the lines handed to handle_command
    taken,       \* history: the bytes receive_command returned, concatenated
    starved,     \* history: getchar found no byte while chunks were to come
    storage,     \* ingestion buffer: the bytes buffered, oldest first
    count,       \* ingestion buffer: the count of bytes pending
    dpc,         \* position of the consumer inside drain_available
    snapshot,    \* drain_available's copy of the bytes it returns
    accepted,    \* history: the bytes the appends retained, concatenated
    drained,     \* history: the bytes the drains returned, concatenated
    gpc,         \* position of main's loop around get_char_input
    gc_c,        \* get_char_input's int c: a character, or EOF
    gc_unread,   \* history: the bytes unread when get_char_input was called
    selections,  \* history: the choices handed to handle_menu_selection
    observed,    \* history: what each command of this variant's run left
    twin         \* history: what the same commands left in the PS run

\* The variables of the byte path, which the command handlers never touch.
transport == <<wire, sent>>

framer == <<stdin, rpc, rc_c, rc_len, rc_command, dispatched, taken, starved>>

buffer == <<storage, count, dpc, snapshot, accepted, drained>>

reader == <<gpc, gc_c, gc_unread, selections>>

pairing == <<observed, twin>>

io == <<transport, framer, buffer, reader, pairing>>

\* The variables of the loop and the command handlers.
device == <<variant, entry, pc, running, param1, param2, param3, app_status,
            args, cur, pre, out, first, nready>>

vars == <<variant, entry, pc, running, param1, param2, param3, app_status,
          args, cur, pre, out, first, nready, io>>

---------------------------------------------------------------------------
(* Program constants *)

MAX_COMMAND_LEN == 256

PARAM_NAME_SIZE == 16

CMD_INIT == <<"i", "n", "i", "t">>

CMD_RUN_APP == <<"r", "u", "n", "_", "a", "p", "p">>

CMD_SET_PARAM == <<"s", "e", "t", "_", "p", "a", "r", "a", "m">>

CMD_GET_STATUS == <<"g", "e", "t", "_", "s", "t", "a", "t", "u", "s">>

CMD_CAPTURE_RAM == <<"c", "a", "p", "t", "u", "r", "e", "_", "r", "a", "m">>

CMD_EXIT == <<"e", "x", "i", "t">>

CMD_HELP == <<"h", "e", "l", "p">>

NAME_PARAM1 == <<"p", "a", "r", "a", "m", "1">>

NAME_PARAM2 == <<"p", "a", "r", "a", "m", "2">>

NAME_PARAM3 == <<"p", "a", "r", "a", "m", "3">>

RESPONSE_OK == "OK"

RESPONSE_READY == "READY"

RESPONSE_INIT_OK == "INIT_OK"

RESPONSE_RUN_OK == "RUN_OK"

RESPONSE_PARAM_SET_OK == "PARAM_SET_OK"

RESPONSE_RAM_CAPTURE_OK == "RAM_CAPTURE_OK"

RESPONSE_EXIT_OK == "EXIT_OK"

STATUS_IDLE == "IDLE"

STATUS_INITIALIZED == "INITIALIZED"

STATUS_RUNNING == "RUNNING"

STATUS_COMPLETED == "COMPLETED"

STATUS_EXITING == "EXITING"

\* 0x00000001
DEFAULT_PARAM1 == <<0, 0, 0, 0, 0, 0, 0, 1>>

\* 0x43C00000
DEFAULT_PARAM2 == <<4, 3, 12, 0, 0, 0, 0, 0>>

\* 0x00001000
DEFAULT_PARAM3 == <<0, 0, 0, 0, 1, 0, 0, 0>>

---------------------------------------------------------------------------
(* uint32_t as eight nibbles *)

Zero32 == <<0, 0, 0, 0, 0, 0, 0, 0>>

Max32 == <<15, 15, 15, 15, 15, 15, 15, 15>>

U32 == [1..8 -> 0..15]

Min(S) == CHOOSE x \in S : \A y \in S : x <= y

Max(S) == CHOOSE x \in S : \A y \in S : x >= y

\* The low 32 bits of the number whose hexadecimal digits are ns.
Low32(ns) ==
    LET n == Len(ns)
    IN  [i \in 1..8 |-> IF i + n <= 8 THEN 0 ELSE ns[i + n - 8]]

\* Two's complement negation modulo 2^32.
Neg32(v) ==
    LET nz == {i \in 1..8 : v[i] # 0}
    IN  IF nz = {} THEN v
        ELSE LET k == Max(nz)
             IN  [i \in 1..8 |-> IF i < k THEN 15 - v[i]
                                 ELSE IF i = k THEN 16 - v[i] ELSE 0]

\* The number of hexadecimal digits of ns from its first nonzero digit on.
Significant(ns) ==
    LET nz == {i \in 1..Len(ns) : ns[i] # 0}
    IN  IF nz = {} THEN 0 ELSE Len(ns) - Min(nz) + 1

HexDigits == <<"0", "1", "2", "3", "4", "5", "6", "7",
               "8", "9", "A", "B", "C", "D", "E", "F">>

\* printf's %08X of a uint32_t.
Hex8(v) ==
    HexDigits[v[1] + 1] \o HexDigits[v[2] + 1] \o HexDigits[v[3] + 1]
    \o HexDigits[v[4] + 1] \o HexDigits[v[5] + 1] \o HexDigits[v[6] + 1]
    \o HexDigits[v[7] + 1] \o HexDigits[v[8] + 1]

---------------------------------------------------------------------------
(* C string functions over sequences of characters *)

IsSpace(c) == c \in {" ", "\t", "\n", "\r", "\f"}

IsHexDigit(c) ==
    c \in {"0", "1", "2", "3", "4", "5", "6", "7", "8", "9",
           "a", "b", "c", "d", "e", "f", "A", "B", "C", "D", "E", "F"}

HexValue(c) ==
    CASE c = "0" -> 0 [] c = "1" -> 1 [] c = "2" -> 2 [] c = "3" -> 3
      [] c = "4" -> 4 [] c = "5" -> 5 [] c = "6" -> 6 [] c = "7" -> 7
      [] c = "8" -> 8 [] c = "9" -> 9
      [] c \in {"a", "A"} -> 10 [] c \in {"b", "B"} -> 11
      [] c \in {"c", "C"} -> 12 [] c \in {"d", "D"} -> 13
      [] c \in {"e", "E"} -> 14 [] c \in {"f", "F"} -> 15

\* strncpy(dst, s, n) followed by dst[n] = '\0': the first n characters of s.
Strncpy(s, n) == SubSeq(s, 1, IF Len(s) < n THEN Len(s) ELSE n)

\* strcspn(s, reject): the length of the prefix of s free of reject.
Strcspn(s, reject) ==
    LET hits == {i \in 1..Len(s) : s[i] \in reject}
    IN  IF hits = {} THEN Len(s) ELSE Min(hits) - 1

\* strchr(s, c): the position of the first c in s, 0 for NULL.
Strchr(s, c) ==
    LET hits == {i \in 1..Len(s) : s[i] = c}
    IN  IF hits = {} THEN 0 ELSE Min(hits)

\* The first position from i on that holds no white space (Len(s)+1: none).
SkipSpace(s, i) ==
    LET stops == {j \in i..Len(s) : ~IsSpace(s[j])}
    IN  IF stops = {} THEN Len(s) + 1 ELSE Min(stops)

\* The first position from i on that holds white space (Len(s)+1: none).
TokenEnd(s, i) ==
    LET stops == {j \in i..Len(s) : IsSpace(s[j])}
    IN  IF stops = {} THEN Len(s) + 1 ELSE Min(stops)

\* The first position from i on that holds no hexadecimal digit.
HexEnd(s, i) ==
    LET stops == {j \in i..Len(s) : ~IsHexDigit(s[j])}
    IN  IF stops = {} THEN Len(s) + 1 ELSE Min(stops)

(***************************************************************************)
(* sscanf's %X from position i of s: white space is skipped, then an       *)
(* optional sign, an optional 0x or 0X that a hexadecimal digit follows,   *)
(* and the longest run of hexadecimal digits.  The result is the set of    *)
(* values that may be stored: empty when no digit is found; one value when *)
(* the number fits 32 bits; when it does not, the C library either keeps   *)
(* the low 32 bits (a 64-bit unsigned long) or saturates (a 32-bit one).   *)
(***************************************************************************)
ScanHex(s, i) ==
    LET j0 == SkipSpace(s, i)
        hasSign == j0 <= Len(s) /\ s[j0] \in {"+", "-"}
        neg == hasSign /\ s[j0] = "-"
        j1 == IF hasSign THEN j0 + 1 ELSE j0
        hasPrefix == /\ j1 + 2 <= Len(s)
                     /\ s[j1] = "0"
                     /\ s[j1 + 1] \in {"x", "X"}
                     /\ IsHexDigit(s[j1 + 2])
        j2 == IF hasPrefix THEN j1 + 2 ELSE j1
        j3 == HexEnd(s, j2)
        digits == [k \in 1..(j3 - j2) |-> HexValue(s[j2 + k - 1])]
        low == IF neg THEN Neg32(Low32(digits)) ELSE Low32(digits)
    IN  IF j3 = j2 THEN {}
        ELSE IF Significant(digits) <= 8 THEN {low}
        ELSE {low, Max32}

(***************************************************************************)
(* sscanf(s, "%s 0x%X", param_name, &param_value).  %s skips white space   *)
(* and takes the characters up to the next white space; the blank of the   *)
(* format skips any white space; 0x must follow literally; then %X.  ret   *)
(* is the value sscanf returns: -1 (EOF) when the input ends before the    *)
(* name, 1 when only the name was converted, 2 when both were.  value is   *)
(* meaningful only when ret = 2.                                           *)
(***************************************************************************)
Sscanf(s) ==
    LET n0 == SkipSpace(s, 1)
    IN  IF n0 > Len(s)
        THEN {[ret |-> -1, name |-> <<>>, value |-> Zero32]}
        ELSE LET n1 == TokenEnd(s, n0)
                 name == SubSeq(s, n0, n1 - 1)
                 m0 == SkipSpace(s, n1)
                 literal == /\ m0 + 1 <= Len(s)
                            /\ s[m0] = "0"
                            /\ s[m0 + 1] = "x"
                 vals == IF literal THEN ScanHex(s, m0 + 2) ELSE {}
             IN  IF vals = {}
                 THEN {[ret |-> 1, name |-> name, value |-> Zero32]}
                 ELSE {[ret |-> 2, name |-> name, value |-> v] : v \in vals}

\* Mutant of ParseCommand: the line is split at its last blank (strrchr).
ParseCommand_LastSpace(command) ==
    LET copied == Strncpy(command, MAX_COMMAND_LEN - 1)
        cmd == SubSeq(copied, 1, Strcspn(copied, {"\r", "\n"}))
        sps == {i \in 1..Len(cmd) : cmd[i] = " "}
        sp == IF sps = {} THEN 0 ELSE Max(sps)
    IN  IF sp = 0
        THEN [name |-> cmd, args |-> <<>>]
        ELSE [name |-> SubSeq(cmd, 1, sp - 1),
              args |-> <<SubSeq(cmd, sp + 1, Len(cmd))>>]

(***************************************************************************)
(* handle_command's split of a line: a copy cut to MAX_COMMAND_LEN - 1     *)
(* characters, cut again at the first \r or \n, and split at the first     *)
(* blank.  args is <<>> for a NULL pointer and <<s>> for the text s.       *)
(***************************************************************************)
ParseCommand(command) ==
    LET copied == Strncpy(command, MAX_COMMAND_LEN - 1)
        cmd == SubSeq(copied, 1, Strcspn(copied, {"\r", "\n"}))
        sp == Strchr(cmd, " ")
    IN  IF sp = 0
        THEN [name |-> cmd, args |-> <<>>]
        ELSE [name |-> SubSeq(cmd, 1, sp - 1),
              args |-> <<SubSeq(cmd, sp + 1, Len(cmd))>>]

---------------------------------------------------------------------------
(* Inputs *)

SP == <<" ">>

CRLF == <<"\r", "\n">>

PARAM9 == <<"p", "a", "r", "a", "m", "9">>

UPPER_PARAM1 == <<"P", "A", "R", "A", "M", "1">>

\* The longest parameter-name token among the inputs.
MaxNameLen == 17

\* A name of n characters; param_name[16] holds 15 and the '\0'.
LongName(n) == [i \in 1..n |-> "a"]

X2 == <<"0", "x", "2">>

X40000000 == <<"0", "x", "4", "0", "0", "0", "0", "0", "0", "0">>

XFFFFFFFF == <<"0", "x", "F", "F", "F", "F", "F", "F", "F", "F">>

X1f == <<"0", "x", "1", "f">>

\* The lines `set_param <name> 0x<hex>` with a known name and a 32-bit value.
ValidSetParamLines ==
    {CMD_SET_PARAM \o SP \o n \o SP \o x :
        n \in {NAME_PARAM1, NAME_PARAM2, NAME_PARAM3},
        x \in {X2, XFFFFFFFF}}
    \cup {CMD_SET_PARAM \o SP \o NAME_PARAM2 \o SP \o X40000000,
          CMD_SET_PARAM \o SP \o NAME_PARAM3 \o SP \o X1f}

\* Other set_param lines: missing, malformed and loosely formed arguments.
OddSetParamLines ==
    {CMD_SET_PARAM,
     CMD_SET_PARAM \o SP,
     CMD_SET_PARAM \o SP \o NAME_PARAM1,
     CMD_SET_PARAM \o SP \o PARAM9 \o SP \o <<"0", "x", "1">>,
     CMD_SET_PARAM \o SP \o UPPER_PARAM1 \o SP \o <<"0", "x", "1">>,
     CMD_SET_PARAM \o SP \o PARAM9 \o SP \o <<"z", "z">>,
     CMD_SET_PARAM \o SP \o PARAM9 \o SP \o <<"0", "x", "1", "z", "z">>,
     CMD_SET_PARAM \o SP \o NAME_PARAM1 \o SP \o <<"1", "0">>,
     CMD_SET_PARAM \o SP \o NAME_PARAM1 \o SP \o <<"0", "x">>,
     CMD_SET_PARAM \o SP \o NAME_PARAM1 \o SP \o <<"0", "x", "Z", "Z">>,
     CMD_SET_PARAM \o SP \o NAME_PARAM1 \o SP \o <<"0", "X", "2">>,
     CMD_SET_PARAM \o SP \o NAME_PARAM1 \o X2,
     CMD_SET_PARAM \o SP \o NAME_PARAM1 \o SP \o X2 \o <<"z", "z">>,
     CMD_SET_PARAM \o SP \o NAME_PARAM1 \o SP \o X2 \o SP \o <<"e", "x">>,
     CMD_SET_PARAM \o SP \o SP \o NAME_PARAM2 \o <<"\t">> \o X2,
     CMD_SET_PARAM \o SP \o NAME_PARAM2 \o SP \o <<"0", "x">> \o X2,
     CMD_SET_PARAM \o SP \o NAME_PARAM3 \o SP \o <<"0", "x", "-", "1">>,
     CMD_SET_PARAM \o SP \o NAME_PARAM3 \o SP
        \o <<"0", "x", "1", "0", "0", "0", "0", "0", "0", "0", "2">>,
     CMD_SET_PARAM \o SP \o NAME_PARAM2 \o SP \o X2 \o CRLF,
     CMD_SET_PARAM \o SP \o LongName(MaxNameLen)}
    \cup {CMD_SET_PARAM \o SP \o LongName(n) \o SP \o X2 :
             n \in (PARAM_NAME_SIZE - 1)..MaxNameLen}

\* Lines whose name is a command of the table.
KnownLines ==
    {CMD_INIT, CMD_RUN_APP, CMD_GET_STATUS, CMD_CAPTURE_RAM, CMD_EXIT,
     CMD_HELP,
     CMD_INIT \o CRLF,
     CMD_GET_STATUS \o SP \o <<"n", "o", "w">>,
     CMD_EXIT \o <<"\n">> \o CMD_INIT}

\* Lines whose name is no command of the table.
UnknownLines ==
    {<<>>,
     <<"I", "N", "I", "T">>,
     <<"i", "n", "i">>,
     <<"i", "n", "i", "t", "x">>,
     <<"b", "o", "g", "u", "s">>,
     SP \o CMD_INIT,
     CRLF \o CMD_EXIT,
     CMD_SET_PARAM \o <<"\t">> \o NAME_PARAM1 \o SP \o X2,
     <<"o", "u", "t", "p", "u", "t", "_", "d", "a", "t", "a">>,
     <<"d", "e", "v", "i", "c", "e", "_", "d", "n", "a">>,
     LongName(MAX_COMMAND_LEN - 2) \o SP}

Lines == KnownLines \cup ValidSetParamLines \cup OddSetParamLines \cup UnknownLines

\* What get_char_input returns: a character of the input, or 0 at EOF.
NUL == "NUL"

\* What getchar returns when it has no byte to give.
EOF == "EOF"

Keys == {"1", "2", "3", "4", "5", "6", "7", "8", "9", "0", "x", NUL}

\* The values scanf("%X") reads in the parameter menu.
ScanValues == {<<4, 0, 0, 0, 0, 0, 0, 0>>, <<0, 0, 0, 0, 0, 0, 0, 5>>}

---------------------------------------------------------------------------
(* State *)

Globals ==
    [param1 |-> param1, param2 |-> param2, param3 |-> param3,
     app_status |-> app_status, running |-> running]

\* No byte is on its way, none is buffered, and no read is under way.
\* main is outside get_char_input and has handed on no choice.
ReaderIdle ==
    /\ gpc = "idle"
    /\ gc_c = EOF
    /\ gc_unread = <<>>
    /\ selections = <<>>

\* No command of a paired run observed.
PairIdle ==
    /\ observed = <<>>
    /\ twin = <<>>

IoIdle ==
    /\ wire = <<>>
    /\ sent = <<>>
    /\ stdin = <<>>
    /\ rpc = "idle"
    /\ rc_c = EOF
    /\ rc_len = 0
    /\ rc_command = <<>>
    /\ dispatched = <<>>
    /\ taken = <<>>
    /\ starved = FALSE
    /\ storage = <<>>
    /\ count = 0
    /\ dpc = "idle"
    /\ snapshot = <<>>
    /\ accepted = <<>>
    /\ drained = <<>>
    /\ ReaderIdle
    /\ PairIdle

\* The static initialisers, and main before its first statement.
StaticInit ==
    /\ pc = "start"
    /\ running = 1
    /\ param1 = DEFAULT_PARAM1
    /\ param2 = DEFAULT_PARAM2
    /\ param3 = DEFAULT_PARAM3
    /\ app_status = STATUS_IDLE
    /\ args = <<>>
    /\ cur = [via |-> "none", line |-> <<>>]
    /\ pre = [param1 |-> DEFAULT_PARAM1, param2 |-> DEFAULT_PARAM2,
              param3 |-> DEFAULT_PARAM3, app_status |-> STATUS_IDLE,
              running |-> 1]
    /\ out = <<>>
    /\ first = <<>>
    /\ nready = 0

Init ==
    /\ variant \in {"PS", "PL"}
    /\ entry \in {"menu", "command"}
    /\ StaticInit
    /\ IoIdle

\* send_response(response): one line written to the UART.
send_response(response) ==
    /\ out' = Append(out, response)
    /\ first' = IF first = <<>> THEN <<response>> ELSE first
    /\ nready' = IF response = RESPONSE_READY THEN nready + 1 ELSE nready

\* A call from the loop body begins: the history variables are reset.
BeginCall(via, line) ==
    /\ cur' = [via |-> via, line |-> line]
    /\ pre' = Globals
    /\ out' = <<>>

---------------------------------------------------------------------------
(* main *)

\* Mutant of main_ready: the loop is entered without READY being sent.
main_ready_Silent ==
    /\ pc = "start"
    /\ pc' = "loop"
    /\ UNCHANGED <<io, variant, entry, running, param1, param2, param3,
                   app_status, args, cur, pre, out, first, nready>>

\* main up to its loop: the banner, then send_response(RESPONSE_READY).
main_ready ==
    /\ pc = "start"
    /\ send_response(RESPONSE_READY)
    /\ pc' = "loop"
    /\ UNCHANGED <<io, variant, entry, running, param1, param2, param3,
                   app_status, args, cur, pre>>

\* while (running) is false: main leaves the loop and returns.
main_stop ==
    /\ pc = "loop"
    /\ running = 0
    /\ pc' = "stopped"
    /\ UNCHANGED <<io, variant, entry, running, param1, param2, param3,
                   app_status, args, cur, pre, out, first, nready>>

---------------------------------------------------------------------------
(* handle_command and the handlers *)

\* Mutant of CommandTarget: init is matched on its first four characters
\* (strncmp in place of strcmp).
CommandTarget_PrefixMatch(name) ==
    IF Len(name) >= 4 /\ SubSeq(name, 1, 4) = CMD_INIT THEN "init"
    ELSE IF name = CMD_RUN_APP THEN "run_app"
    ELSE IF name = CMD_SET_PARAM THEN "set_param"
    ELSE IF name = CMD_GET_STATUS THEN "get_status"
    ELSE IF name = CMD_CAPTURE_RAM THEN "capture_ram"
    ELSE IF name = CMD_EXIT THEN "exit"
    ELSE IF name = CMD_HELP THEN "help"
    ELSE "unknown"

\* The handler handle_command's strcmp chain selects for a command name.
CommandTarget(name) ==
    IF name = CMD_INIT THEN "init"
    ELSE IF name = CMD_RUN_APP THEN "run_app"
    ELSE IF name = CMD_SET_PARAM THEN "set_param"
    ELSE IF name = CMD_GET_STATUS THEN "get_status"
    ELSE IF name = CMD_CAPTURE_RAM THEN "capture_ram"
    ELSE IF name = CMD_EXIT THEN "exit"
    ELSE IF name = CMD_HELP THEN "help"
    ELSE "unknown"

\* handle_command(command) up to the call of the handler it selects.
handle_command(command) ==
    /\ BeginCall("command", command)
    /\ args' = ParseCommand(command).args
    /\ pc' = CommandTarget(ParseCommand(command).name)
    /\ UNCHANGED <<variant, entry, running, param1, param2, param3,
                   app_status, first, nready>>

\* handle_command's last branch: no command of the table matched.
handle_command_unknown ==
    /\ pc = "unknown"
    /\ send_response("ERROR: Unknown command")
    /\ pc' = "loop"
    /\ UNCHANGED <<io, variant, entry, running, param1, param2, param3,
                   app_status, args, cur, pre>>

\* Mutant of handle_init_command: param3 is not reset.
handle_init_command_KeepsParam3 ==
    /\ pc = "init"
    /\ param1' = DEFAULT_PARAM1
    /\ param2' = DEFAULT_PARAM2
    /\ app_status' = STATUS_INITIALIZED
    /\ send_response(RESPONSE_INIT_OK)
    /\ pc' = "loop"
    /\ UNCHANGED <<io, variant, entry, running, param3, args, cur, pre>>

\* Mutant of handle_init_command: the status goes back to IDLE.
handle_init_command_BackToIdle ==
    /\ pc = "init"
    /\ param1' = DEFAULT_PARAM1
    /\ param2' = DEFAULT_PARAM2
    /\ param3' = DEFAULT_PARAM3
    /\ app_status' = STATUS_IDLE
    /\ send_response(RESPONSE_INIT_OK)
    /\ pc' = "loop"
    /\ UNCHANGED <<io, variant, entry, running, args, cur, pre>>

handle_init_command ==
    /\ pc = "init"
    /\ param1' = DEFAULT_PARAM1
    /\ param2' = DEFAULT_PARAM2
    /\ param3' = DEFAULT_PARAM3
    /\ app_status' = STATUS_INITIALIZED
    /\ send_response(RESPONSE_INIT_OK)
    /\ pc' = "loop"
    /\ UNCHANGED <<io, variant, entry, running, args, cur, pre>>

\* handle_run_app_command: strcpy(app_status, "RUNNING").
handle_run_app_command_running ==
    /\ pc = "run_app"
    /\ app_status' = STATUS_RUNNING
    /\ pc' = "run_app_delay"
    /\ UNCHANGED <<io, variant, entry, running, param1, param2, param3,
                   args, cur, pre, out, first, nready>>

\* Mutant of handle_run_app_command_completed: RUN_OK is sent before the
\* status is set to COMPLETED.
handle_run_app_command_completed_RespondsFirst ==
    /\ pc = "run_app_delay"
    /\ send_response(RESPONSE_RUN_OK)
    /\ pc' = "run_app_respond"
    /\ UNCHANGED <<io, variant, entry, running, param1, param2, param3,
                   app_status, args, cur, pre>>

\* Mutant of handle_run_app_command_completed: the status is left at
\* RUNNING after the delay.
handle_run_app_command_completed_KeepsRunning ==
    /\ pc = "run_app_delay"
    /\ pc' = "run_app_respond"
    /\ UNCHANGED <<io, variant, entry, running, param1, param2, param3,
                   app_status, args, cur, pre, out, first, nready>>

\* handle_run_app_command: the delay, then strcpy(app_status, "COMPLETED").
handle_run_app_command_completed ==
    /\ pc = "run_app_delay"
    /\ app_status' = STATUS_COMPLETED
    /\ pc' = "run_app_respond"
    /\ UNCHANGED <<io, variant, entry, running, param1, param2, param3,
                   args, cur, pre, out, first, nready>>

\* handle_run_app_command: send_response(RESPONSE_RUN_OK) and return.
handle_run_app_command_respond ==
    /\ pc = "run_app_respond"
    /\ send_response(RESPONSE_RUN_OK)
    /\ pc' = "loop"
    /\ UNCHANGED <<io, variant, entry, running, param1, param2, param3,
                   app_status, args, cur, pre>>

\* Mutant of SetParamStore: the param2 branch assigns param3.
SetParamStore_WrongField(r) ==
    IF r.ret = 2
    THEN IF r.name = NAME_PARAM1
         THEN /\ param1' = r.value
              /\ UNCHANGED <<param2, param3>>
              /\ send_response(RESPONSE_PARAM_SET_OK)
         ELSE IF r.name \in {NAME_PARAM2, NAME_PARAM3}
         THEN /\ param3' = r.value
              /\ UNCHANGED <<param1, param2>>
              /\ send_response(RESPONSE_PARAM_SET_OK)
         ELSE /\ UNCHANGED <<param1, param2, param3>>
              /\ send_response("ERROR: Unknown parameter name")
    ELSE /\ UNCHANGED <<param1, param2, param3>>
         /\ send_response("ERROR: Invalid parameter format")

\* The assignments and the response of handle_set_param_command once
\* sscanf has returned r.
SetParamStore(r) ==
    IF r.ret = 2
    THEN IF r.name = NAME_PARAM1
         THEN /\ param1' = r.value
              /\ UNCHANGED <<param2, param3>>
              /\ send_response(RESPONSE_PARAM_SET_OK)
         ELSE IF r.name = NAME_PARAM2
         THEN /\ param2' = r.value
              /\ UNCHANGED <<param1, param3>>
              /\ send_response(RESPONSE_PARAM_SET_OK)
         ELSE IF r.name = NAME_PARAM3
         THEN /\ param3' = r.value
              /\ UNCHANGED <<param1, param2>>
              /\ send_response(RESPONSE_PARAM_SET_OK)
         ELSE /\ UNCHANGED <<param1, param2, param3>>
              /\ send_response("ERROR: Unknown parameter name")
    ELSE /\ UNCHANGED <<param1, param2, param3>>
         /\ send_response("ERROR: Invalid parameter format")

(***************************************************************************)
(* handle_set_param_command(args).  sscanf's %s has no field width: a name *)
(* of PARAM_NAME_SIZE characters or more is written past param_name[16].   *)
(* That is undefined behaviour; the build either survives it (the bytes    *)
(* past the array are not needed) or the smashed stack ends the process.   *)
(***************************************************************************)
handle_set_param_command ==
    /\ pc = "set_param"
    /\ IF args = <<>>
       THEN /\ send_response("ERROR: Missing parameter arguments")
            /\ pc' = "loop"
            /\ UNCHANGED <<param1, param2, param3>>
       ELSE \E r \in Sscanf(args[1]) :
               \/ /\ SetParamStore(r)
                  /\ pc' = "loop"
               \/ /\ Len(r.name) >= PARAM_NAME_SIZE
                  /\ pc' = "crashed"
                  /\ UNCHANGED <<param1, param2, param3, out, first, nready>>
    /\ UNCHANGED <<io, variant, entry, running, app_status, args, cur, pre>>

\* Mutant of StatusResponse: param2 and param3 are passed in the wrong order.
StatusResponse_Swapped(status, p1, p2, p3) ==
    "STATUS: " \o status \o ", P1: 0x" \o Hex8(p1) \o ", P2: 0x" \o Hex8(p3)
    \o ", P3: 0x" \o Hex8(p2)

\* snprintf's "STATUS: %s, P1: 0x%08X, P2: 0x%08X, P3: 0x%08X".
StatusResponse(status, p1, p2, p3) ==
    "STATUS: " \o status \o ", P1: 0x" \o Hex8(p1) \o ", P2: 0x" \o Hex8(p2)
    \o ", P3: 0x" \o Hex8(p3)

handle_get_status_command ==
    /\ pc = "get_status"
    /\ send_response(StatusResponse(app_status, param1, param2, param3))
    /\ pc' = "loop"
    /\ UNCHANGED <<io, variant, entry, running, param1, param2, param3,
                   app_status, args, cur, pre>>

\* Mutant of handle_capture_ram_command: the size is cleared once the
\* capture is done.
handle_capture_ram_command_ClearsSize ==
    /\ pc = "capture_ram"
    /\ param3' = Zero32
    /\ send_response(RESPONSE_RAM_CAPTURE_OK)
    /\ pc' = "loop"
    /\ UNCHANGED <<io, variant, entry, running, param1, param2,
                   app_status, args, cur, pre>>

\* handle_capture_ram_command: param2 and param3 are printed, not changed.
handle_capture_ram_command ==
    /\ pc = "capture_ram"
    /\ send_response(RESPONSE_RAM_CAPTURE_OK)
    /\ pc' = "loop"
    /\ UNCHANGED <<io, variant, entry, running, param1, param2, param3,
                   app_status, args, cur, pre>>

\* Mutant of handle_exit_command_status: EXIT_OK is sent before the status
\* is set to EXITING.
handle_exit_command_status_RespondsFirst ==
    /\ pc = "exit"
    /\ send_response(RESPONSE_EXIT_OK)
    /\ pc' = "exit_respond"
    /\ UNCHANGED <<io, variant, entry, running, param1, param2, param3,
                   app_status, args, cur, pre>>

\* handle_exit_command: strcpy(app_status, "EXITING").
handle_exit_command_status ==
    /\ pc = "exit"
    /\ app_status' = STATUS_EXITING
    /\ pc' = "exit_respond"
    /\ UNCHANGED <<io, variant, entry, running, param1, param2, param3,
                   args, cur, pre, out, first, nready>>

\* handle_exit_command: send_response(RESPONSE_EXIT_OK).
handle_exit_command_respond ==
    /\ pc = "exit_respond"
    /\ send_response(RESPONSE_EXIT_OK)
    /\ pc' = "exit_stop"
    /\ UNCHANGED <<io, variant, entry, running, param1, param2, param3,
                   app_status, args, cur, pre>>

\* Mutant of handle_exit_command_stop: running is left set.
handle_exit_command_stop_KeepsRunning ==
    /\ pc = "exit_stop"
    /\ pc' = "loop"
    /\ UNCHANGED <<io, variant, entry, running, param1, param2, param3,
                   app_status, args, cur, pre, out, first, nready>>

\* handle_exit_command: running = 0 and return.
handle_exit_command_stop ==
    /\ pc = "exit_stop"
    /\ running' = 0
    /\ pc' = "loop"
    /\ UNCHANGED <<io, variant, entry, param1, param2, param3, app_status,
                   args, cur, pre, out, first, nready>>

\* The text handle_help_command sends, which differs between the variants.
HelpResponse(v) ==
    IF v = "PS"
    THEN "HELP: Available commands: init, run_app, set_param, get_status, "
         \o "capture_ram, output_data, device_dna, exit, help"
    ELSE "HELP: Available commands: init, run_app, set_param, get_status, "
         \o "capture_ram, exit, help"

\* Mutant of handle_help_command: the status is put back to IDLE.
handle_help_command_ResetsStatus ==
    /\ pc = "help"
    /\ app_status' = STATUS_IDLE
    /\ send_response(HelpResponse(variant))
    /\ pc' = "loop"
    /\ UNCHANGED <<io, variant, entry, running, param1, param2, param3,
                   args, cur, pre>>

handle_help_command ==
    /\ pc = "help"
    /\ send_response(HelpResponse(variant))
    /\ pc' = "loop"
    /\ UNCHANGED <<io, variant, entry, running, param1, param2, param3,
                   app_status, args, cur, pre>>

\* PS variant only, reached from the menu.
handle_output_data_command ==
    /\ pc = "output_data"
    /\ send_response(RESPONSE_OK)
    /\ pc' = "loop"
    /\ UNCHANGED <<io, variant, entry, running, param1, param2, param3,
                   app_status, args, cur, pre>>

\* PS variant only, reached from the menu.
handle_device_dna_command ==
    /\ pc = "device_dna"
    /\ send_response("DEVICE_DNA: 0x13579BDF9ABCDEF012345678")
    /\ pc' = "loop"
    /\ UNCHANGED <<io, variant, entry, running, param1, param2, param3,
                   app_status, args, cur, pre>>

---------------------------------------------------------------------------
(* The menu of main's loop body *)

\* The case of handle_menu_selection's outer switch a choice selects.
MenuTarget(v, choice) ==
    IF choice = "1" THEN "init"
    ELSE IF choice = "2" THEN "param_menu"
    ELSE IF choice = "3" THEN "run_app"
    ELSE IF choice = "4" THEN "get_status"
    ELSE IF choice = "5" THEN "capture_ram"
    ELSE IF v = "PS" /\ choice = "6" THEN "output_data"
    ELSE IF v = "PS" /\ choice = "7" THEN "device_dna"
    ELSE IF v = "PS" /\ choice = "8" THEN "help"
    ELSE IF v = "PS" /\ choice = "9" THEN "exit"
    ELSE IF v = "PL" /\ choice = "6" THEN "help"
    ELSE IF v = "PL" /\ choice = "7" THEN "exit"
    ELSE "none"

\* case '2' of handle_menu_selection: the parameter menu.  get_char_input
\* gives param_choice (and the height choice); scanf("%X") either reads a
\* value or fails (scanned = <<>>).
param_menu(choice) ==
    \E param_choice \in Keys :
        IF param_choice = "1"
        THEN \E height \in Keys :
                /\ BeginCall("menu", <<choice, param_choice, height>>)
                /\ param1' = IF height = "1" THEN <<0, 0, 0, 0, 0, 0, 0, 1>>
                             ELSE IF height = "2" THEN <<0, 0, 0, 0, 0, 0, 0, 2>>
                             ELSE IF height = "3" THEN <<0, 0, 0, 0, 0, 0, 0, 3>>
                             ELSE param1
                /\ UNCHANGED <<param2, param3>>
        ELSE IF param_choice = "2"
        THEN \E scanned \in {<<>>} \cup {<<v>> : v \in ScanValues} :
                /\ BeginCall("menu", <<choice, param_choice>>)
                /\ param2' = IF scanned = <<>> THEN param2 ELSE scanned[1]
                /\ UNCHANGED <<param1, param3>>
        ELSE IF param_choice = "3"
        THEN \E scanned \in {<<>>} \cup {<<v>> : v \in ScanValues} :
                /\ BeginCall("menu", <<choice, param_choice>>)
                /\ param3' = IF scanned = <<>> THEN param3 ELSE scanned[1]
                /\ UNCHANGED <<param1, param2>>
        ELSE /\ BeginCall("menu", <<choice, param_choice>>)
             /\ UNCHANGED <<param1, param2, param3>>

\* handle_menu_selection(choice) up to the call of the handler it selects.
handle_menu_selection(choice) ==
    LET target == MenuTarget(variant, choice)
    IN  /\ IF target = "param_menu"
           THEN /\ param_menu(choice)
                /\ pc' = "loop"
           ELSE IF target = "capture_ram"
           THEN \E data_choice \in Keys :
                   /\ BeginCall("menu", <<choice, data_choice>>)
                   /\ pc' = "capture_ram"
                   /\ UNCHANGED <<param1, param2, param3>>
           ELSE /\ BeginCall("menu", <<choice>>)
                /\ pc' = IF target = "none" THEN "loop" ELSE target
                /\ UNCHANGED <<param1, param2, param3>>
        /\ UNCHANGED <<variant, entry, running, app_status, args, first,
                       nready>>

\* One turn of main's loop: while (running) { choice = get_char_input();
\* handle_menu_selection(choice); }.
main_loop_iteration ==
    /\ pc = "loop"
    /\ running = 1
    /\ entry = "menu"
    /\ \E choice \in Keys : handle_menu_selection(choice)
    /\ UNCHANGED io

\* One turn of the consumer loop of the command protocol: a received line
\* is handed to handle_command.
command_loop_iteration ==
    /\ pc = "loop"
    /\ running = 1
    /\ entry = "command"
    /\ \E command \in Lines : handle_command(command)
    /\ UNCHANGED io

---------------------------------------------------------------------------
(* Specification *)

Next ==
    \/ main_ready
    \/ main_stop
    \/ main_loop_iteration
    \/ command_loop_iteration
    \/ handle_command_unknown
    \/ handle_init_command
    \/ handle_run_app_command_running
    \/ handle_run_app_command_completed
    \/ handle_run_app_command_respond
    \/ handle_set_param_command
    \/ handle_get_status_command
    \/ handle_capture_ram_command
    \/ handle_exit_command_status
    \/ handle_exit_command_respond
    \/ handle_exit_command_stop
    \/ handle_help_command
    \/ handle_output_data_command
    \/ handle_device_dna_command

Spec == Init /\ [][Next]_vars

\* The steps from a served exit to the end of main: straight-line code and
\* the loop test, none of which waits for input.
ExitPath ==
    \/ handle_exit_command_status
    \/ handle_exit_command_respond
    \/ handle_exit_command_stop
    \/ main_stop

\* The processor keeps executing the exit path once it is entered.
FairSpec == Spec /\ WF_vars(ExitPath)

---------------------------------------------------------------------------
(* Framing: receive_command over getchar *)

\* A line longer than the command buffer: MAX_COMMAND_LEN + 1 characters,
\* none of them a terminator or a blank.
LongLine == [i \in 1..(MAX_COMMAND_LEN + 1) |-> HexDigits[(i % 16) + 1]]

\* The byte streams a host sends.
FrameStreams ==
    {CMD_INIT \o CRLF,
     CMD_SET_PARAM \o SP \o NAME_PARAM1 \o SP \o X2 \o <<"\n">>,
     CMD_GET_STATUS \o <<"\r">>,
     CRLF \o <<"\n">>,
     CMD_HELP \o CRLF \o CRLF \o CMD_RUN_APP \o <<"\n">>,
     CMD_CAPTURE_RAM \o <<"\n">> \o CMD_EXIT \o <<"\n">>
        \o <<"b", "o", "g", "u", "s", "\n">>,
     LongLine \o <<"\n">>}

\* Where a stream is cut in two chunks: 0 is no cut.  The long stream is
\* sent whole.
Splits(bytes) ==
    IF Len(bytes) > MAX_COMMAND_LEN THEN {0} ELSE 0..(Len(bytes) - 1)

\* The chunks of a stream cut after its first split bytes.
Chunks(bytes, split) ==
    IF split = 0 THEN <<bytes>>
    ELSE <<SubSeq(bytes, 1, split), SubSeq(bytes, split + 1, Len(bytes))>>

\* main before its first statement, with a host about to send a stream.
FrameInit ==
    /\ variant \in {"PS", "PL"}
    /\ entry = "receive"
    /\ StaticInit
    /\ \E bytes \in FrameStreams : \E split \in Splits(bytes) :
          /\ sent = [bytes |-> bytes, split |-> split]
          /\ wire = Chunks(bytes, split)
    /\ stdin = <<>>
    /\ rpc = "idle"
    /\ rc_c = EOF
    /\ rc_len = 0
    /\ rc_command = <<>>
    /\ dispatched = <<>>
    /\ taken = <<>>
    /\ starved = FALSE
    /\ storage = <<>>
    /\ count = 0
    /\ dpc = "idle"
    /\ snapshot = <<>>
    /\ accepted = <<>>
    /\ drained = <<>>
    /\ ReaderIdle
    /\ PairIdle

\* The next chunk arrives: its bytes become readable by getchar.
deliver ==
    /\ entry = "receive"
    /\ wire # <<>>
    /\ stdin' = stdin \o Head(wire)
    /\ wire' = Tail(wire)
    /\ UNCHANGED <<device, sent, rpc, rc_c, rc_len, rc_command, dispatched,
                   taken, starved, buffer, reader, pairing>>

\* c = getchar(): the next readable byte, or EOF when there is none.
getchar ==
    /\ rc_c' = IF stdin = <<>> THEN EOF ELSE Head(stdin)
    /\ stdin' = IF stdin = <<>> THEN stdin ELSE Tail(stdin)
    /\ starved' = (starved \/ (stdin = <<>> /\ wire # <<>>))

\* Mutant of IsTerminator: only \n ends a line.
IsTerminator_NewlineOnly(ch) == ch = "\n"

\* receive_command's test c != '\n' && c != '\r', negated.
IsTerminator(ch) == ch \in {"\n", "\r"}

\* receive_command up to its loop: len = 0; c = getchar(); return 0 on EOF,
\* with the command buffer not written.
receive_command_begin ==
    /\ pc = "loop"
    /\ running = 1
    /\ entry = "receive"
    /\ rpc = "idle"
    /\ getchar
    /\ rc_len' = 0
    /\ rpc' = IF stdin = <<>> THEN "returned" ELSE "scan"
    /\ rc_command' = IF stdin = <<>> THEN rc_command ELSE <<>>
    /\ UNCHANGED <<device, transport, dispatched, taken, buffer, reader,
                   pairing>>

\* One test of receive_command's loop and what follows it: either
\* command[len++] = c; c = getchar(); and break on EOF, or the loop is left;
\* once it is left, command[len] = '\0' and len is returned.
receive_command_scan(max_len) ==
    /\ rpc = "scan"
    /\ IF ~IsTerminator(rc_c) /\ rc_len < max_len - 1
       THEN /\ rc_command' = Append(rc_command, rc_c)
            /\ rc_len' = rc_len + 1
            /\ getchar
            /\ rpc' = IF stdin = <<>> THEN "returned" ELSE "scan"
            /\ taken' = IF stdin = <<>> THEN taken \o rc_command' ELSE taken
       ELSE /\ rpc' = "returned"
            /\ taken' = taken \o rc_command
            /\ UNCHANGED <<stdin, rc_c, rc_len, rc_command, starved>>
    /\ UNCHANGED <<device, transport, dispatched, buffer, reader, pairing>>

\* The loop body after receive_command has returned: a line that is not
\* empty is handed to handle_command, an empty one is discarded.
frame_loop_dispatch ==
    /\ pc = "loop"
    /\ rpc = "returned"
    /\ IF rc_len > 0
       THEN /\ handle_command(rc_command)
            /\ dispatched' = Append(dispatched, rc_command)
       ELSE UNCHANGED <<device, dispatched>>
    /\ rpc' = "idle"
    /\ UNCHANGED <<transport, stdin, rc_c, rc_len, rc_command, taken, starved,
                   buffer, reader, pairing>>

FrameNext ==
    \/ main_ready
    \/ main_stop
    \/ deliver
    \/ receive_command_begin
    \/ receive_command_scan(MAX_COMMAND_LEN)
    \/ frame_loop_dispatch
    \/ handle_command_unknown
    \/ handle_init_command
    \/ handle_run_app_command_running
    \/ handle_run_app_command_completed
    \/ handle_run_app_command_respond
    \/ handle_set_param_command
    \/ handle_get_status_command
    \/ handle_capture_ram_command
    \/ handle_exit_command_status
    \/ handle_exit_command_respond
    \/ handle_exit_command_stop
    \/ handle_help_command

FrameSpec == FrameInit /\ [][FrameNext]_vars

---------------------------------------------------------------------------
(* The ingestion buffer between the producer and the consumer loop *)

BUFFER_SIZE == 1024

\* n bytes that differ from their neighbours, the first chosen by from.
Pattern(from, n) == [i \in 1..n |-> HexDigits[((from + i) % 16) + 1]]

\* The chunks the transport reports: two short ones, one that nearly fills
\* the buffer and one larger than the buffer.
BufferChunks ==
    {Pattern(0, 2), Pattern(3, 3), Pattern(1, BUFFER_SIZE - 2),
     Pattern(9, BUFFER_SIZE + 6)}

\* The most chunks of a run.
MaxChunks == 3

\* The chunk sequences of a run.
BufferWires ==
    UNION {[1..n -> BufferChunks] : n \in 1..MaxChunks}

\* The buffer empty, the consumer outside drain_available, chunks to come.
BufferInit ==
    /\ variant \in {"PS", "PL"}
    /\ entry = "buffer"
    /\ StaticInit
    /\ wire \in BufferWires
    /\ sent = wire
    /\ stdin = <<>>
    /\ rpc = "idle"
    /\ rc_c = EOF
    /\ rc_len = 0
    /\ rc_command = <<>>
    /\ dispatched = <<>>
    /\ taken = <<>>
    /\ starved = FALSE
    /\ storage = <<>>
    /\ count = 0
    /\ dpc = "idle"
    /\ snapshot = <<>>
    /\ accepted = <<>>
    /\ drained = <<>>
    /\ ReaderIdle
    /\ PairIdle

\* The bytes of a chunk that fit a buffer holding pending bytes.
Fitting(chunk, pending) ==
    SubSeq(chunk, 1, Min({Len(chunk), BUFFER_SIZE - pending}))

(***************************************************************************)
(* on_bytes_received(chunk), the producer: the bytes that fit are copied   *)
(* behind the pending ones and the count is raised; the rest is dropped.   *)
(* The producer is an interrupt-style callback: it runs to its end between *)
(* two steps of the consumer.                                              *)
(***************************************************************************)
on_bytes_received(chunk) ==
    /\ storage' = SubSeq(storage, 1, count) \o Fitting(chunk, count)
    /\ count' = count + Len(Fitting(chunk, count))
    /\ accepted' = accepted \o Fitting(chunk, count)

\* The transport reports its next chunk to the producer.
producer ==
    /\ entry = "buffer"
    /\ wire # <<>>
    /\ on_bytes_received(Head(wire))
    /\ wire' = Tail(wire)
    /\ UNCHANGED <<device, sent, framer, dpc, snapshot, drained, reader,
                   pairing>>

\* drain_available, first half: the count is read and that many bytes are
\* copied out.  No lock is held, so the producer may run before the reset.
drain_available_copy ==
    /\ entry = "buffer"
    /\ dpc = "idle"
    /\ snapshot' = SubSeq(storage, 1, count)
    /\ dpc' = "reset"
    /\ UNCHANGED <<device, transport, framer, storage, count, accepted,
                   drained, reader, pairing>>

\* drain_available, second half: the buffer is reset to empty and the
\* bytes copied are returned.
drain_available_reset ==
    /\ dpc = "reset"
    /\ count' = 0
    /\ drained' = drained \o snapshot
    /\ dpc' = "idle"
    /\ UNCHANGED <<device, transport, framer, storage, snapshot, accepted,
                   reader, pairing>>

BufferNext ==
    \/ producer
    \/ drain_available_copy
    \/ drain_available_reset

BufferSpec == BufferInit /\ [][BufferNext]_vars

---------------------------------------------------------------------------
(* The menu lines read by get_char_input *)

LF == <<"\n">>

\* The input of a run, as a terminal sends it: lines of one character,
\* lines that end in \r\n, lines with one, two or three characters after
\* the choice, an empty line, a last line without \n, and no input at all.
\* No line holds a choice that reads a further line (2 and 5).
KeyStreams ==
    {<<"1">> \o LF \o <<"3">> \o LF \o <<"4">> \o LF \o <<"6">> \o LF
        \o <<"7">> \o LF \o <<"8">> \o LF \o <<"9">> \o LF,
     <<"4">> \o CRLF \o <<"1">> \o CRLF \o <<"9">> \o CRLF \o <<"7">> \o CRLF,
     <<"1", "a">> \o LF \o <<"3">> \o LF \o <<"4">> \o LF,
     <<"1", "a", "b">> \o LF \o <<"4">> \o LF,
     CMD_INIT \o LF \o <<"4">> \o LF \o <<"9">> \o LF \o <<"7">> \o LF,
     LF \o <<"4">> \o LF \o <<"3">> \o LF,
     <<"1">>,
     <<>>}

\* The most choices main hands on in a run: input that has ended makes
\* get_char_input return 0 for ever.
MaxSelections == 8

\* The whole input readable, main outside get_char_input.
KeyInit ==
    /\ variant \in {"PS", "PL"}
    /\ entry = "keys"
    /\ StaticInit
    /\ wire = <<>>
    /\ sent \in KeyStreams
    /\ stdin = sent
    /\ rpc = "idle"
    /\ rc_c = EOF
    /\ rc_len = 0
    /\ rc_command = <<>>
    /\ dispatched = <<>>
    /\ taken = <<>>
    /\ starved = FALSE
    /\ storage = <<>>
    /\ count = 0
    /\ dpc = "idle"
    /\ snapshot = <<>>
    /\ accepted = <<>>
    /\ drained = <<>>
    /\ ReaderIdle
    /\ PairIdle

\* What getchar returns for the bytes s: the next one, or EOF at the end.
NextChar(s) == IF s = <<>> THEN EOF ELSE Head(s)

\* What getchar leaves of the bytes s.
AfterChar(s) == IF s = <<>> THEN s ELSE Tail(s)

\* get_char_input up to its loop: c = getchar(); return 0 on EOF.
get_char_input_begin ==
    /\ pc = "loop"
    /\ running = 1
    /\ entry = "keys"
    /\ gpc = "idle"
    /\ Len(selections) < MaxSelections
    /\ gc_unread' = stdin
    /\ gc_c' = NextChar(stdin)
    /\ stdin' = AfterChar(stdin)
    /\ gpc' = IF stdin = <<>> THEN "returned" ELSE "flush"
    /\ UNCHANGED <<device, transport, rpc, rc_c, rc_len, rc_command,
                   dispatched, taken, starved, buffer, selections, pairing>>

\* One test of while (getchar() != '\n' && getchar() != EOF): the first
\* getchar, and, when it gave no \n, the second; the loop goes on when the
\* second gave no EOF.
get_char_input_flush ==
    /\ gpc = "flush"
    /\ IF NextChar(stdin) = "\n"
       THEN /\ stdin' = AfterChar(stdin)
            /\ gpc' = "returned"
       ELSE /\ stdin' = AfterChar(AfterChar(stdin))
            /\ gpc' = IF NextChar(AfterChar(stdin)) = EOF THEN "returned"
                      ELSE "flush"
    /\ UNCHANGED <<device, transport, rpc, rc_c, rc_len, rc_command,
                   dispatched, taken, starved, buffer, gc_c, gc_unread,
                   selections, pairing>>

\* main's loop after get_char_input has returned (char)c, or 0 for EOF:
\* handle_menu_selection(choice).
key_loop_dispatch ==
    /\ pc = "loop"
    /\ gpc = "returned"
    /\ LET choice == IF gc_c = EOF THEN NUL ELSE gc_c
       IN  /\ handle_menu_selection(choice)
           /\ selections' = Append(selections, choice)
    /\ gpc' = "idle"
    /\ UNCHANGED <<transport, framer, buffer, gc_c, gc_unread, pairing>>

KeyNext ==
    \/ main_ready
    \/ main_stop
    \/ get_char_input_begin
    \/ get_char_input_flush
    \/ key_loop_dispatch
    \/ handle_init_command
    \/ handle_run_app_command_running
    \/ handle_run_app_command_completed
    \/ handle_run_app_command_respond
    \/ handle_get_status_command
    \/ handle_exit_command_status
    \/ handle_exit_command_respond
    \/ handle_exit_command_stop
    \/ handle_help_command
    \/ handle_output_data_command
    \/ handle_device_dna_command

KeySpec == KeyInit /\ [][KeyNext]_vars

---------------------------------------------------------------------------
(* The same command lines served by the PS build, then by the PL build *)

\* The command lines of a paired run: every command of the table, unknown
\* names, and set_param lines that succeed, fail and overflow.
PairLines ==
    {CMD_INIT, CMD_RUN_APP, CMD_GET_STATUS, CMD_CAPTURE_RAM, CMD_EXIT,
     CMD_HELP,
     <<"b", "o", "g", "u", "s">>,
     <<"o", "u", "t", "p", "u", "t", "_", "d", "a", "t", "a">>,
     CMD_SET_PARAM,
     CMD_SET_PARAM \o SP \o NAME_PARAM1 \o SP \o X2,
     CMD_SET_PARAM \o SP \o NAME_PARAM2 \o SP \o X40000000,
     CMD_SET_PARAM \o SP \o NAME_PARAM3 \o SP \o X1f,
     CMD_SET_PARAM \o SP \o PARAM9 \o SP \o <<"0", "x", "1">>,
     CMD_SET_PARAM \o SP \o NAME_PARAM1 \o SP \o X2 \o <<"z", "z">>,
     CMD_SET_PARAM \o SP \o LongName(PARAM_NAME_SIZE) \o SP \o X2}

\* The most command lines of a paired run.
MaxPairLines == 3

\* The PS program at its start, no line sent yet.
PairInit ==
    /\ variant = "PS"
    /\ entry = "pair"
    /\ StaticInit
    /\ IoIdle

\* What a served command has left: the globals, whether the process went
\* down, and the responses, those of help apart (the help texts differ).
Observation ==
    [globals |-> Globals,
     crashed |-> (pc = "crashed"),
     out |-> IF CommandTarget(ParseCommand(cur.line).name) = "help"
             THEN <<"HELP">> ELSE out]

\* The lines handed to handle_command in the run of the current program.
PairServed == Len(sent) - Len(wire)

\* The PS program is handed a further line.
pair_first_dispatch ==
    /\ entry = "pair"
    /\ variant = "PS"
    /\ pc = "loop"
    /\ running = 1
    /\ Len(observed) = PairServed
    /\ Len(sent) < MaxPairLines
    /\ \E command \in PairLines :
          /\ handle_command(command)
          /\ sent' = Append(sent, command)
    /\ UNCHANGED <<wire, framer, buffer, reader, pairing>>

\* The PL program is handed the next line the PS program was handed.
pair_replay_dispatch ==
    /\ entry = "pair"
    /\ variant = "PL"
    /\ pc = "loop"
    /\ running = 1
    /\ Len(observed) = PairServed
    /\ wire # <<>>
    /\ handle_command(Head(wire))
    /\ wire' = Tail(wire)
    /\ UNCHANGED <<sent, framer, buffer, reader, pairing>>

\* The command handed last has been served: what it left is recorded.
pair_observe ==
    /\ entry = "pair"
    /\ pc \in {"loop", "stopped", "crashed"}
    /\ cur.via = "command"
    /\ Len(observed) < PairServed
    /\ observed' = Append(observed, Observation)
    /\ UNCHANGED <<device, transport, framer, buffer, reader, twin>>

\* The PS run ends and the PL program starts afresh with the same lines.
pair_switch ==
    /\ entry = "pair"
    /\ variant = "PS"
    /\ pc \in {"loop", "stopped", "crashed"}
    /\ sent # <<>>
    /\ Len(observed) = PairServed
    /\ variant' = "PL"
    /\ pc' = "start"
    /\ running' = 1
    /\ param1' = DEFAULT_PARAM1
    /\ param2' = DEFAULT_PARAM2
    /\ param3' = DEFAULT_PARAM3
    /\ app_status' = STATUS_IDLE
    /\ args' = <<>>
    /\ cur' = [via |-> "none", line |-> <<>>]
    /\ pre' = [param1 |-> DEFAULT_PARAM1, param2 |-> DEFAULT_PARAM2,
               param3 |-> DEFAULT_PARAM3, app_status |-> STATUS_IDLE,
               running |-> 1]
    /\ out' = <<>>
    /\ first' = <<>>
    /\ nready' = 0
    /\ wire' = sent
    /\ twin' = observed
    /\ observed' = <<>>
    /\ UNCHANGED <<entry, sent, framer, buffer, reader>>

PairNext ==
    \/ main_ready
    \/ main_stop
    \/ pair_first_dispatch
    \/ pair_replay_dispatch
    \/ pair_observe
    \/ pair_switch
    \/ handle_command_unknown
    \/ handle_init_command
    \/ handle_run_app_command_running
    \/ handle_run_app_command_completed
    \/ handle_run_app_command_respond
    \/ handle_set_param_command
    \/ handle_get_status_command
    \/ handle_capture_ram_command
    \/ handle_exit_command_status
    \/ handle_exit_command_respond
    \/ handle_exit_command_stop
    \/ handle_help_command

PairSpec == PairInit /\ [][PairNext]_vars

---------------------------------------------------------------------------
(* Properties *)

\* The handler the call being served (or last served) was dispatched to.
LastTarget ==
    IF cur.via = "command" THEN CommandTarget(ParseCommand(cur.line).name)
    ELSE IF cur.via = "menu" THEN MenuTarget(variant, cur.line[1])
    ELSE "none"

\* The call being served has returned to the loop.
Returned == pc = "loop" /\ cur.via # "none"

ParamsUnchanged ==
    /\ param1 = pre.param1
    /\ param2 = pre.param2
    /\ param3 = pre.param3

\* line is `set_param <name> 0x<hex>`: one blank between the parts, a name
\* of the three, and one or more hexadecimal digits that fit 32 bits.
IsValidSetParam(line) ==
    /\ Len(line) >= 20
    /\ SubSeq(line, 1, 10) = CMD_SET_PARAM \o SP
    /\ SubSeq(line, 11, 16) \in {NAME_PARAM1, NAME_PARAM2, NAME_PARAM3}
    /\ SubSeq(line, 17, 19) = <<" ", "0", "x">>
    /\ \A i \in 20..Len(line) : IsHexDigit(line[i])
    /\ Significant([k \in 1..(Len(line) - 19) |-> HexValue(line[19 + k])]) <= 8

\* The value the digits of a valid set_param line denote.
ValidValue(line) ==
    Low32([k \in 1..(Len(line) - 19) |-> HexValue(line[19 + k])])

\* The parameter a valid set_param line names.
NamedParam(line) ==
    IF SubSeq(line, 11, 16) = NAME_PARAM1 THEN param1
    ELSE IF SubSeq(line, 11, 16) = NAME_PARAM2 THEN param2
    ELSE param3

(***************************************************************************)
(* C1.  After handle_command has served a valid `set_param <name> 0x<hex>` *)
(* (name one of param1, param2, param3; a value that fits 32 bits), from   *)
(* whatever state it was called in, the named parameter equals the parsed  *)
(* value and the one response sent is PARAM_SET_OK.                        *)
(***************************************************************************)
C1_ValidSetParam ==
    (Returned /\ cur.via = "command" /\ IsValidSetParam(cur.line))
        => /\ NamedParam(cur.line) = ValidValue(cur.line)
           /\ out = <<"PARAM_SET_OK">>

\* Scenario B's command, served after a run_app.
C1_Witness ==
    /\ Returned
    /\ cur.line = CMD_SET_PARAM \o SP \o NAME_PARAM2 \o SP \o X40000000
    /\ pre.app_status = "COMPLETED"
    /\ pre.param2 = <<15, 15, 15, 15, 15, 15, 15, 15>>
    /\ param2 = <<4, 0, 0, 0, 0, 0, 0, 0>>
    /\ out = <<"PARAM_SET_OK">>

(***************************************************************************)
(* C2.  After init has been served (by handle_command or by the menu),     *)
(* from whatever state, param1 = 0x00000001, param2 = 0x43C00000,          *)
(* param3 = 0x00001000, the status is INITIALIZED and the one response is  *)
(* INIT_OK; an init served in the state an init leaves changes nothing.    *)
(***************************************************************************)
C2_InitResets ==
    (Returned /\ LastTarget = "init")
        => /\ param1 = <<0, 0, 0, 0, 0, 0, 0, 1>>
           /\ param2 = <<4, 3, 12, 0, 0, 0, 0, 0>>
           /\ param3 = <<0, 0, 0, 0, 1, 0, 0, 0>>
           /\ app_status = "INITIALIZED"
           /\ running = pre.running
           /\ out = <<"INIT_OK">>
           /\ (/\ pre.param1 = <<0, 0, 0, 0, 0, 0, 0, 1>>
               /\ pre.param2 = <<4, 3, 12, 0, 0, 0, 0, 0>>
               /\ pre.param3 = <<0, 0, 0, 0, 1, 0, 0, 0>>
               /\ pre.app_status = "INITIALIZED") => Globals = pre

\* An init served when all three parameters and the status had changed.
C2_Witness ==
    /\ Returned
    /\ LastTarget = "init"
    /\ pre.param1 # DEFAULT_PARAM1
    /\ pre.param2 # DEFAULT_PARAM2
    /\ pre.param3 # DEFAULT_PARAM3
    /\ pre.app_status = "COMPLETED"
    /\ param3 = DEFAULT_PARAM3
    /\ out = <<"INIT_OK">>

\* The names of the command table.
TableNames ==
    {CMD_INIT, CMD_RUN_APP, CMD_SET_PARAM, CMD_GET_STATUS, CMD_CAPTURE_RAM,
     CMD_EXIT, CMD_HELP}

(***************************************************************************)
(* C3.  After handle_command has served a line whose name (the text before *)
(* the first blank) is not exactly a name of the table, the one response   *)
(* is `ERROR: Unknown command`, and param1, param2, param3, the status and *)
(* the running flag are what they were.                                    *)
(***************************************************************************)
C3_UnknownCommand ==
    (/\ pc \in {"loop", "stopped", "crashed"}
     /\ cur.via = "command"
     /\ ParseCommand(cur.line).name \notin TableNames)
        => /\ pc = "loop"
           /\ out = <<"ERROR: Unknown command">>
           /\ Globals = pre

\* A prefix of a command name, served when the parameters had been set.
C3_Witness ==
    /\ Returned
    /\ cur.line = <<"i", "n", "i">>
    /\ pre.param1 = <<0, 0, 0, 0, 0, 0, 0, 2>>
    /\ pre.app_status = "COMPLETED"
    /\ out = <<"ERROR: Unknown command">>

\* The three errors handle_set_param_command reports.
SetParamErrors ==
    {"ERROR: Missing parameter arguments", "ERROR: Unknown parameter name",
     "ERROR: Invalid parameter format"}

\* line is a set_param that does not end in PARAM_SET_OK: it has no
\* argument, or sscanf does not convert both items, or the name is none of
\* param1, param2, param3.
SetParamFails(line) ==
    LET p == ParseCommand(line)
    IN  /\ p.name = CMD_SET_PARAM
        /\ \/ p.args = <<>>
           \/ \A r \in Sscanf(p.args[1]) :
                 \/ r.ret # 2
                 \/ r.name \notin {NAME_PARAM1, NAME_PARAM2, NAME_PARAM3}

(***************************************************************************)
(* C4.  Every failing set_param (no argument, wrong argument shape, a name *)
(* other than param1, param2, param3, a malformed value) sends exactly one *)
(* response, one of the ERROR responses, and leaves the three parameters   *)
(* and the status as they were; `set_param param9 0x1` is answered         *)
(* `ERROR: Unknown parameter name`.                                        *)
(***************************************************************************)
C4_FailingSetParam ==
    (/\ pc \in {"loop", "stopped", "crashed"}
     /\ cur.via = "command"
     /\ SetParamFails(cur.line))
        => /\ pc = "loop"
           /\ Len(out) = 1
           /\ out[1] \in SetParamErrors
           /\ ParamsUnchanged
           /\ app_status = pre.app_status
           /\ (cur.line = CMD_SET_PARAM \o SP \o PARAM9 \o SP \o <<"0", "x", "1">>)
                 => out = <<"ERROR: Unknown parameter name">>

(***************************************************************************)
(* C5.  A served exit sets the status to EXITING, then sends EXIT_OK, then *)
(* clears running, in this order; once it has returned, running is 0 and   *)
(* the parameters are what they were.                                      *)
(***************************************************************************)
C5_ExitOrder ==
    (LastTarget = "exit")
        => /\ pc \in {"exit", "exit_respond", "exit_stop", "loop", "stopped"}
           /\ (pc = "exit") => (Globals = pre /\ out = <<>>)
           /\ (pc = "exit_respond")
                 => (app_status = "EXITING" /\ out = <<>> /\ running = 1)
           /\ (pc = "exit_stop")
                 => (app_status = "EXITING" /\ out = <<"EXIT_OK">> /\ running = 1)
           /\ (pc \in {"loop", "stopped"})
                 => (app_status = "EXITING" /\ out = <<"EXIT_OK">> /\ running = 0)
           /\ ParamsUnchanged

\* An exit that has returned, served after parameters and status changed.
C5_Witness ==
    /\ Returned
    /\ LastTarget = "exit"
    /\ cur.via = "command"
    /\ pre.app_status = "COMPLETED"
    /\ pre.param2 # DEFAULT_PARAM2
    /\ param2 = pre.param2
    /\ running = 0
    /\ out = <<"EXIT_OK">>

(***************************************************************************)
(* C6.  Exiting is terminal: once the status is EXITING it stays EXITING;  *)
(* once running is 0 the status is EXITING and the only step left is the   *)
(* loop ending, with no further call served and no further response; and a *)
(* served exit leads to the loop ending.                                   *)
(***************************************************************************)
C6_ExitingTerminal ==
    /\ [][/\ (app_status = "EXITING") => (app_status' = "EXITING")
          /\ (running' = 0) => (app_status' = "EXITING")
          /\ (running = 0)
                => (pc' = "stopped" /\ cur' = cur /\ out' = out
                    /\ running' = 0)]_vars
    /\ (LastTarget = "exit") ~> (pc = "stopped")

\* The loop has ended after an exit that followed other commands.
C6_Witness ==
    /\ pc = "stopped"
    /\ running = 0
    /\ app_status = "EXITING"
    /\ LastTarget = "exit"
    /\ pre.app_status = "INITIALIZED"

(***************************************************************************)
(* C7.  A served run_app sets the status to RUNNING, then to COMPLETED,    *)
(* and only then sends RUN_OK: the status is COMPLETED when RUN_OK is sent *)
(* and after the return, and the parameters are what they were.            *)
(***************************************************************************)
C7_RunAppOrder ==
    (LastTarget = "run_app")
        => /\ pc \in {"run_app", "run_app_delay", "run_app_respond", "loop"}
           /\ (pc = "run_app") => (Globals = pre /\ out = <<>>)
           /\ (pc = "run_app_delay")
                 => (app_status = "RUNNING" /\ out = <<>>)
           /\ (pc = "run_app_respond")
                 => (app_status = "COMPLETED" /\ out = <<>>)
           /\ (pc = "loop")
                 => (app_status = "COMPLETED" /\ out = <<"RUN_OK">>)
           /\ ParamsUnchanged
           /\ running = pre.running

\* A run_app that has returned, served after an init and a set_param of
\* param3.
C7_Witness ==
    /\ Returned
    /\ LastTarget = "run_app"
    /\ pre.app_status = "INITIALIZED"
    /\ pre.param3 # DEFAULT_PARAM3
    /\ app_status = "COMPLETED"
    /\ out = <<"RUN_OK">>

(***************************************************************************)
(* C8.  Every call of handle_command, for any command line, sends exactly  *)
(* one response: never two while it runs, and one once it has ended.       *)
(***************************************************************************)
C8_ExactlyOneResponse ==
    (cur.via = "command")
        => /\ Len(out) <= 1
           /\ (pc \in {"loop", "stopped", "crashed"}) => (Len(out) = 1)

(***************************************************************************)
(* C9.  READY is sent exactly once in a run and is the first response:     *)
(* nothing is sent before it, and no call served by the loop sends it.     *)
(***************************************************************************)
C9_ReadyOnceFirst ==
    /\ (pc = "start") => (nready = 0 /\ first = <<>> /\ out = <<>>)
    /\ (pc # "start") => (nready = 1 /\ first = <<"READY">>)
    /\ (cur.via # "none") => (\A i \in 1..Len(out) : out[i] # "READY")

\* The run has ended; its last call sent its own response.
C9_Witness ==
    /\ pc = "stopped"
    /\ cur.via = "command"
    /\ out = <<"EXIT_OK">>
    /\ nready = 1
    /\ first = <<"READY">>

(***************************************************************************)
(* C10.  The response to get_status is                                     *)
(* `STATUS: <status>, P1: 0x<8-hex>, P2: 0x<8-hex>, P3: 0x<8-hex>` with    *)
(* the status and the three parameters as they are when it is served, and  *)
(* it changes none of them; after init it is exactly                       *)
(* `STATUS: INITIALIZED, P1: 0x00000001, P2: 0x43C00000, P3: 0x00001000`.  *)
(***************************************************************************)
C10_GetStatus ==
    (Returned /\ LastTarget = "get_status")
        => /\ out = <<"STATUS: " \o pre.app_status
                      \o ", P1: 0x" \o Hex8(pre.param1)
                      \o ", P2: 0x" \o Hex8(pre.param2)
                      \o ", P3: 0x" \o Hex8(pre.param3)>>
           /\ Globals = pre
           /\ (/\ pre.app_status = "INITIALIZED"
               /\ pre.param1 = DEFAULT_PARAM1
               /\ pre.param2 = DEFAULT_PARAM2
               /\ pre.param3 = DEFAULT_PARAM3)
                 => out = <<"STATUS: INITIALIZED, P1: 0x00000001, P2: 0x43C00000, P3: 0x00001000">>
           /\ (/\ pre.app_status = "COMPLETED"
               /\ pre.param1 = <<15, 15, 15, 15, 15, 15, 15, 15>>
               /\ pre.param2 = <<4, 0, 0, 0, 0, 0, 0, 0>>
               /\ pre.param3 = <<0, 0, 0, 0, 0, 0, 1, 15>>)
                 => out = <<"STATUS: COMPLETED, P1: 0xFFFFFFFF, P2: 0x40000000, P3: 0x0000001F">>

\* Scenario B's get_status: param2 was set to 0x40000000 and a run_app
\* has completed.
C10_Witness ==
    /\ Returned
    /\ LastTarget = "get_status"
    /\ cur.via = "command"
    /\ out = <<"STATUS: COMPLETED, P1: 0xFFFFFFFF, P2: 0x40000000, P3: 0x0000001F">>

\* The targets that are set_param or init: the set_param command, the
\* parameter menu (the menu's Set Parameters), and init.
ParamWriters == {"init", "set_param", "param_menu"}

\* The name sscanf's %s takes from the argument of a set_param line.
SetParamName(line) ==
    (CHOOSE r \in Sscanf(ParseCommand(line).args[1]) : TRUE).name

(***************************************************************************)
(* C11.  param1, param2 and param3 change only in a step of set_param (the *)
(* command or the menu's Set Parameters) or of init; a set_param command   *)
(* answered PARAM_SET_OK has changed at most the parameter it names, to a  *)
(* value sscanf read, and left the other two as they were; run_app,        *)
(* get_status, capture_ram, exit, help and unknown commands (and the other *)
(* menu choices) leave all three as they were.                             *)
(***************************************************************************)
C11_ParamsFrame ==
    /\ [][(<<param1, param2, param3>>' # <<param1, param2, param3>>)
            => \/ pc \in {"init", "set_param"}
               \/ /\ pc = "loop"
                  /\ cur'.via = "menu"
                  /\ MenuTarget(variant, cur'.line[1]) = "param_menu"]_vars
    /\ [](LastTarget \notin ParamWriters => ParamsUnchanged)
    /\ []((/\ Returned
           /\ cur.via = "command"
           /\ out = <<"PARAM_SET_OK">>)
            => LET name == SetParamName(cur.line)
                   vals == {r.value : r \in Sscanf(ParseCommand(cur.line).args[1])}
               IN  /\ name \in {NAME_PARAM1, NAME_PARAM2, NAME_PARAM3}
                   /\ (name = NAME_PARAM1)
                         => (param1 \in vals /\ param2 = pre.param2
                             /\ param3 = pre.param3)
                   /\ (name = NAME_PARAM2)
                         => (param2 \in vals /\ param1 = pre.param1
                             /\ param3 = pre.param3)
                   /\ (name = NAME_PARAM3)
                         => (param3 \in vals /\ param1 = pre.param1
                             /\ param2 = pre.param2))

\* A set_param of param3 served when param1 and param2 had been set, and
\* a capture_ram served when all three had been set.
C11_Witness ==
    \/ /\ Returned
       /\ cur.line = CMD_SET_PARAM \o SP \o NAME_PARAM3 \o SP \o X1f
       /\ pre.param1 = <<15, 15, 15, 15, 15, 15, 15, 15>>
       /\ pre.param2 = <<4, 0, 0, 0, 0, 0, 0, 0>>
       /\ pre.param3 = DEFAULT_PARAM3
       /\ param1 = pre.param1
       /\ param2 = pre.param2
       /\ param3 = <<0, 0, 0, 0, 0, 0, 1, 15>>
    \/ /\ Returned
       /\ LastTarget = "capture_ram"
       /\ pre.param1 # DEFAULT_PARAM1
       /\ pre.param2 # DEFAULT_PARAM2
       /\ pre.param3 = <<0, 0, 0, 0, 0, 0, 1, 15>>
       /\ param3 = pre.param3
       /\ out = <<"RAM_CAPTURE_OK">>

\* The five values of the status.
StatusValues ==
    {STATUS_IDLE, STATUS_INITIALIZED, STATUS_RUNNING, STATUS_COMPLETED,
     STATUS_EXITING}

(***************************************************************************)
(* C12.  The status is always one of IDLE, INITIALIZED, RUNNING,           *)
(* COMPLETED, EXITING; it changes only in a step of init, run_app or exit; *)
(* and a call dispatched to anything else (set_param that succeeds or      *)
(* fails, get_status, capture_ram, help, an unknown command, the other     *)
(* menu choices) leaves it as it was.                                      *)
(***************************************************************************)
C12_StatusFrame ==
    /\ [](app_status \in StatusValues)
    /\ [][(app_status' # app_status)
            => pc \in {"init", "run_app", "run_app_delay", "exit"}]_vars
    /\ [](LastTarget \notin {"init", "run_app", "exit"}
            => app_status = pre.app_status)

\* A help and a failing set_param, each served when a run_app had completed.
C12_Witness ==
    /\ Returned
    /\ pre.app_status = "COMPLETED"
    /\ app_status = "COMPLETED"
    /\ \/ LastTarget = "help"
       \/ out = <<"ERROR: Unknown parameter name">>

(***************************************************************************)
(* C13.  In every reachable state param1 is 1, 2 or 3.                     *)
(***************************************************************************)
C13_Param1Domain ==
    param1 \in {<<0, 0, 0, 0, 0, 0, 0, 1>>, <<0, 0, 0, 0, 0, 0, 0, 2>>,
                <<0, 0, 0, 0, 0, 0, 0, 3>>}

(***************************************************************************)
(* C14.  The running flag changes only from 1 to 0 and only in the last    *)
(* step of a dispatched exit; the loop ends only after that; and no call   *)
(* (unknown or malformed input, a parse error, an invalid menu choice)     *)
(* ends the process otherwise.                                             *)
(***************************************************************************)
C14_ExitOnlyCancellation ==
    [][/\ (running' # running)
            => (/\ running = 1
                /\ running' = 0
                /\ pc = "exit_stop"
                /\ LastTarget = "exit")
       /\ (pc' = "stopped" /\ pc # "stopped")
            => (running = 0 /\ LastTarget = "exit")
       /\ pc' # "crashed"]_vars

\* Every byte sent has arrived and been read, and the loop is between two
\* calls of receive_command (or has ended).
FrameDone ==
    /\ entry = "receive"
    /\ wire = <<>>
    /\ stdin = <<>>
    /\ rpc = "idle"
    /\ pc \in {"loop", "stopped"}

\* The text of a stream before its first terminator.
FirstLine(bytes) == SubSeq(bytes, 1, Strcspn(bytes, {"\r", "\n"}))

\* bytes is one logical command line: a line that is not empty and fits
\* the command buffer, then terminators only.
IsSingleCommand(bytes) ==
    /\ Len(FirstLine(bytes)) \in 1..(MAX_COMMAND_LEN - 1)
    /\ \A i \in (Len(FirstLine(bytes)) + 1)..Len(bytes) :
          bytes[i] \in {"\r", "\n"}

(***************************************************************************)
(* C15.  For one logical command line sent whole, or sent as two chunks    *)
(* with getchar finding no byte between them, what is handed to            *)
(* handle_command once every byte has been read is that line, once; and    *)
(* nothing but the whole line is ever handed to it.                        *)
(***************************************************************************)
C15_SplitInvariance ==
    (entry = "receive" /\ IsSingleCommand(sent.bytes))
        => /\ \A i \in 1..Len(dispatched) :
                 dispatched[i] = FirstLine(sent.bytes)
           /\ (FrameDone /\ pc = "loop" /\ (sent.split = 0 \/ starved))
                 => dispatched = <<FirstLine(sent.bytes)>>

NotTerminator(ch) == ch \notin {"\r", "\n"}

(***************************************************************************)
(* C16.  No call of receive_command puts more than max_len bytes (the      *)
(* characters and the '\0') in the command buffer; a line longer than the  *)
(* buffer is cut at the maximum and its remainder is returned by the next  *)
(* call: once every byte has been read, the bytes the calls returned,      *)
(* concatenated, are the bytes sent without their terminators, none        *)
(* dropped and none duplicated.                                            *)
(***************************************************************************)
C16_Truncation ==
    (entry = "receive")
        => /\ Len(rc_command) + 1 <= MAX_COMMAND_LEN
           /\ rc_len = Len(rc_command) \/ rc_len = 0
           /\ (FrameDone /\ pc = "loop")
                 => taken = SelectSeq(sent.bytes, NotTerminator)

\* The lines of a byte stream: the text between terminators, empty lines
\* left out.
RECURSIVE LinesOf(_)
LinesOf(bytes) ==
    IF bytes = <<>> THEN <<>>
    ELSE IF bytes[1] \in {"\r", "\n"} THEN LinesOf(Tail(bytes))
    ELSE <<FirstLine(bytes)>>
         \o LinesOf(SubSeq(bytes, Len(FirstLine(bytes)) + 1, Len(bytes)))

DispatchLabels ==
    {"unknown", "init", "run_app", "set_param", "get_status", "capture_ram",
     "exit", "help"}

\* The positions of the blanks of a line before its first \r or \n.
Blanks(line) ==
    {i \in 1..Len(FirstLine(line)) : line[i] = " "}

\* The command name of a line: its text before the first blank.
NameOf(line) ==
    IF Blanks(line) = {} THEN FirstLine(line)
    ELSE SubSeq(line, 1, Min(Blanks(line)) - 1)

\* The argument of a line: <<>> when absent, else everything after the
\* first blank up to the first \r or \n.
ArgumentOf(line) ==
    IF Blanks(line) = {} THEN <<>>
    ELSE <<SubSeq(line, Min(Blanks(line)) + 1, Len(FirstLine(line)))>>

(***************************************************************************)
(* C18.  For a line that fits the command buffer, handle_command selects   *)
(* the handler by the text before the first blank, and the argument it     *)
(* passes on is everything after the first blank, further blanks kept;     *)
(* the argument is NULL exactly when the line has no blank; the first \r   *)
(* or \n and what follows it are in neither.                               *)
(***************************************************************************)
C18_SplitAtFirstSpace ==
    (cur.via = "command" /\ Len(cur.line) <= MAX_COMMAND_LEN - 1)
        => /\ args = ArgumentOf(cur.line)
           /\ (args = <<>>) <=> (Blanks(cur.line) = {})
           /\ (pc \in DispatchLabels)
                 => pc = CommandTarget(NameOf(cur.line))

\* set_param followed by two blanks: the second blank stays in the
\* argument, and the line is dispatched to set_param.
C18_Witness ==
    /\ cur.via = "command"
    /\ cur.line = CMD_SET_PARAM \o SP \o SP \o NAME_PARAM2 \o <<"\t">> \o X2
    /\ pc = "set_param"
    /\ args = <<SP \o NAME_PARAM2 \o <<"\t">> \o X2>>

\* The bytes pending in the ingestion buffer.
Pending == SubSeq(storage, 1, count)

(***************************************************************************)
(* C19.  The count of pending bytes never exceeds BUFFER_SIZE; an append   *)
(* keeps the pending bytes and, of its chunk, exactly the first            *)
(* BUFFER_SIZE - pending bytes when the chunk is larger than that, all of  *)
(* it otherwise; and a drain returns exactly the bytes the buffer retains  *)
(* and leaves it empty.                                                    *)
(***************************************************************************)
C19_Capacity ==
    /\ []((entry = "buffer") => (count <= BUFFER_SIZE /\ count <= Len(storage)))
    /\ [][(wire' # wire)
            => LET chunk == Head(wire)
                   room == BUFFER_SIZE - count
                   kept == IF Len(chunk) > room THEN room ELSE Len(chunk)
               IN  /\ count' = count + kept
                   /\ SubSeq(storage', 1, count')
                        = Pending \o SubSeq(chunk, 1, kept)]_vars
    /\ [][(dpc = "reset" /\ dpc' = "idle")
            => (/\ drained' = drained \o Pending
                /\ count' = 0)]_vars

(***************************************************************************)
(* C20.  Whenever no drain is under way, the bytes drained so far followed *)
(* by the bytes still pending are the bytes the appends accepted, in the   *)
(* order of their arrival: none reordered, duplicated or missing.          *)
(***************************************************************************)
C20_Ordering ==
    (entry = "buffer" /\ dpc = "idle") => (drained \o Pending = accepted)


(***************************************************************************)
(* C21.  However the producer's appends and the consumer's drains          *)
(* interleave, the count a drain reads never covers bytes that are not yet *)
(* copied into the storage, and a byte appended while a drain is between   *)
(* its copy and its reset is not lost: when the drain returns, every       *)
(* accepted byte is either drained or still pending.                       *)
(***************************************************************************)
C21_Atomicity ==
    /\ []((entry = "buffer") => (count <= Len(storage)))
    /\ [][(dpc = "reset" /\ dpc' = "idle")
            => (accepted' = drained' \o SubSeq(storage', 1, count'))]_vars


\* arg has exactly the shape `<param-name> 0x<hex-digits>`: a name without
\* white space, one blank, 0x, one or more hexadecimal digits, nothing else.
HasExactShape(arg) ==
    LET sp == Strchr(arg, " ")
    IN  /\ sp > 1
        /\ \A i \in 1..(sp - 1) : ~IsSpace(arg[i])
        /\ Len(arg) >= sp + 3
        /\ arg[sp + 1] = "0"
        /\ arg[sp + 2] = "x"
        /\ \A i \in (sp + 3)..Len(arg) : IsHexDigit(arg[i])

(***************************************************************************)
(* C22.  A set_param whose argument has not exactly the shape              *)
(* `<param-name> 0x<hex-digits>` (characters after the hexadecimal digits, *)
(* no 0x prefix, no hexadecimal digit) is answered with one of the ERROR   *)
(* responses and changes no parameter.                                     *)
(***************************************************************************)
C22_ExactShape ==
    (/\ Returned
     /\ cur.via = "command"
     /\ NameOf(cur.line) = CMD_SET_PARAM
     /\ ArgumentOf(cur.line) # <<>>
     /\ ~HasExactShape(ArgumentOf(cur.line)[1]))
        => /\ Len(out) = 1
           /\ out[1] \in SetParamErrors
           /\ ParamsUnchanged


\* The name token of a set_param argument: its first run of characters
\* that are no white space.
NameToken(arg) ==
    SubSeq(arg, SkipSpace(arg, 1), TokenEnd(arg, SkipSpace(arg, 1)) - 1)

\* arg has a name token and, after white space, 0x and a hexadecimal digit.
HasNameAndValue(arg) ==
    LET v == SkipSpace(arg, TokenEnd(arg, SkipSpace(arg, 1)))
    IN  /\ NameToken(arg) # <<>>
        /\ v + 2 <= Len(arg)
        /\ arg[v] = "0"
        /\ arg[v + 1] = "x"
        /\ IsHexDigit(arg[v + 2])

\* The response to the call served, "none" when there is not exactly one.
TheResponse == IF pc = "loop" /\ Len(out) = 1 THEN out[1] ELSE "none"

(***************************************************************************)
(* C23.  Once a set_param command is served: the response is               *)
(* `ERROR: Missing parameter arguments` exactly when the line has no       *)
(* argument; it is `ERROR: Unknown parameter name` exactly when the        *)
(* argument has a name token and a parsable 0x<hex> value and the name is  *)
(* none of param1, param2, param3; and it is                               *)
(* `ERROR: Invalid parameter format` in every other case that does not end *)
(* in PARAM_SET_OK, an empty argument and an unknown name with a malformed *)
(* value among them.                                                       *)
(***************************************************************************)
C23_ErrorSelection ==
    (/\ pc \in {"loop", "crashed"}
     /\ cur.via = "command"
     /\ NameOf(cur.line) = CMD_SET_PARAM)
        => LET arg == ArgumentOf(cur.line)
           IN  /\ (TheResponse = "ERROR: Missing parameter arguments")
                     <=> (arg = <<>>)
               /\ (TheResponse = "ERROR: Unknown parameter name")
                     <=> (/\ arg # <<>>
                          /\ HasNameAndValue(arg[1])
                          /\ NameToken(arg[1]) \notin
                                {NAME_PARAM1, NAME_PARAM2, NAME_PARAM3})
               /\ (/\ arg # <<>>
                   /\ TheResponse # "PARAM_SET_OK"
                   /\ \/ ~HasNameAndValue(arg[1])
                      \/ NameToken(arg[1]) \in
                            {NAME_PARAM1, NAME_PARAM2, NAME_PARAM3})
                     => (TheResponse = "ERROR: Invalid parameter format")
               /\ (/\ arg # <<>>
                   /\ ~HasNameAndValue(arg[1])
                   /\ NameToken(arg[1]) \notin
                         {NAME_PARAM1, NAME_PARAM2, NAME_PARAM3})
                     => (TheResponse = "ERROR: Invalid parameter format")


(***************************************************************************)
(* C24.  Once a set_param command with an argument is served, the name     *)
(* sscanf has stored and its terminator fit the PARAM_NAME_SIZE bytes of   *)
(* param_name; a name token of PARAM_NAME_SIZE characters or more is       *)
(* answered with one of the ERROR responses and the call returns.          *)
(***************************************************************************)
C24_NameFitsBuffer ==
    (/\ pc \in {"loop", "crashed"}
     /\ cur.via = "command"
     /\ NameOf(cur.line) = CMD_SET_PARAM
     /\ ArgumentOf(cur.line) # <<>>)
        => /\ Len(SetParamName(cur.line)) + 1 <= PARAM_NAME_SIZE
           /\ (Len(NameToken(ArgumentOf(cur.line)[1])) >= PARAM_NAME_SIZE)
                 => (pc = "loop" /\ TheResponse \in SetParamErrors)


(***************************************************************************)
(* C25.  The status is never RUNNING at a command boundary: not when the   *)
(* loop is about to take its next command, and not once the process has    *)
(* stopped; and the response of a get_status never reports RUNNING.        *)
(***************************************************************************)
C25_NeverRunningAtBoundary ==
    /\ (pc \in {"start", "loop", "stopped"}) => (app_status # STATUS_RUNNING)
    /\ (cur.via # "none" /\ LastTarget = "get_status")
          => /\ pre.app_status # STATUS_RUNNING
             /\ \A i \in 1..Len(out) :
                   out[i] # StatusResponse(STATUS_RUNNING, param1, param2,
                                           param3)

\* A get_status command served after a run_app that has been RUNNING and
\* has completed.
C25_Witness ==
    /\ Returned
    /\ cur.via = "command"
    /\ cur.line = CMD_GET_STATUS
    /\ pre.app_status = STATUS_COMPLETED
    /\ out = <<StatusResponse(STATUS_COMPLETED, param1, param2, param3)>>


(***************************************************************************)
(* C26.  The status is IDLE only before the first init, run_app or exit:   *)
(* a call of one of the three that has returned leaves a status other than *)
(* IDLE, and no step of any command takes the status from another value    *)
(* back to IDLE, init included, which yields INITIALIZED.                  *)
(***************************************************************************)
C26_IdleOnlyAtStart ==
    /\ []((/\ pc \in {"loop", "stopped"}
           /\ LastTarget \in {"init", "run_app", "exit"})
             => (app_status # STATUS_IDLE))
    /\ [][(app_status # STATUS_IDLE) => (app_status' # STATUS_IDLE)]_vars

\* An init served after a run_app: the status goes from COMPLETED to
\* INITIALIZED.
C26_Witness ==
    /\ Returned
    /\ cur.via = "command"
    /\ cur.line = CMD_INIT
    /\ pre.app_status = STATUS_COMPLETED
    /\ app_status = STATUS_INITIALIZED


\* The command names the help response of variant v lists, in its order.
HelpNames(v) ==
    IF v = "PS"
    THEN <<"init", "run_app", "set_param", "get_status", "capture_ram",
           "output_data", "device_dna", "exit", "help">>
    ELSE <<"init", "run_app", "set_param", "get_status", "capture_ram",
           "exit", "help">>

\* The names of a list separated by ", ".
RECURSIVE JoinNames(_)
JoinNames(names) ==
    IF Len(names) = 0 THEN ""
    ELSE IF Len(names) = 1 THEN names[1]
    ELSE names[1] \o ", " \o JoinNames(Tail(names))

\* The characters of a listed name, as a command line holds them.
Spelled(listed) ==
    CASE listed = "init" -> CMD_INIT
      [] listed = "run_app" -> CMD_RUN_APP
      [] listed = "set_param" -> CMD_SET_PARAM
      [] listed = "get_status" -> CMD_GET_STATUS
      [] listed = "capture_ram" -> CMD_CAPTURE_RAM
      [] listed = "output_data" ->
            <<"o", "u", "t", "p", "u", "t", "_", "d", "a", "t", "a">>
      [] listed = "device_dna" ->
            <<"d", "e", "v", "i", "c", "e", "_", "d", "n", "a">>
      [] listed = "exit" -> CMD_EXIT
      [] listed = "help" -> CMD_HELP

(***************************************************************************)
(* C27.  The help response of a variant is the list of its HelpNames, and  *)
(* a command line that is one of these names is dispatched by              *)
(* handle_command of that variant to a handler: it is never taken for an   *)
(* unknown command and never answered `ERROR: Unknown command`.            *)
(***************************************************************************)
C27_HelpNamesAccepted ==
    /\ HelpResponse(variant)
         = "HELP: Available commands: " \o JoinNames(HelpNames(variant))
    /\ (/\ cur.via = "command"
        /\ \E i \in 1..Len(HelpNames(variant)) :
              cur.line = Spelled(HelpNames(variant)[i]))
          => /\ pc # "unknown"
             /\ \A j \in 1..Len(out) : out[j] # "ERROR: Unknown command"


\* The length of the first line of the bytes s, its \n included; all of s
\* when it holds no \n.
ThroughNewline(s) == IF Strchr(s, "\n") = 0 THEN Len(s) ELSE Strchr(s, "\n")

(***************************************************************************)
(* C28.  A call of get_char_input that finds input returns the first       *)
(* character of the line it was called at and leaves unread exactly what   *)
(* follows that line's first \n; so, while input remains, main has handed  *)
(* on one choice for each line read.                                       *)
(***************************************************************************)
C28_OneLinePerCall ==
    /\ (entry = "keys" /\ gpc = "returned" /\ gc_unread # <<>>)
          => /\ gc_c = gc_unread[1]
             /\ stdin = SubSeq(gc_unread, ThroughNewline(gc_unread) + 1,
                               Len(gc_unread))
    /\ (entry = "keys" /\ gpc = "idle" /\ stdin # <<>>)
          => Len(selections)
               = Cardinality({i \in 1..(Len(sent) - Len(stdin)) :
                                 sent[i] = "\n"})


(***************************************************************************)
(* C29.  When the PL variant is handed, through handle_command, the        *)
(* command lines the PS variant was handed, each command leaves it with    *)
(* the status, the parameter values and the running flag it left the PS    *)
(* variant with, and with the same responses sent, those of help apart.    *)
(***************************************************************************)
C29_VariantsEquivalent ==
    (entry = "pair" /\ variant = "PL")
        => \A i \in 1..Len(observed) : observed[i] = twin[i]

===========================================================================
